---------------------------- MODULE Spec2Model ----------------------------
(***************************************************************************)
(* Model of tello_gazebo/src/tello_plugin.cpp: the Gazebo model plugin     *)
(* that tracks a commanded body-frame velocity with four PID channels.     *)
(*                                                                         *)
(* Two threads touch the plugin object.  OnUpdate runs on the Gazebo       *)
(* physics thread (ConnectWorldUpdateBegin, line 139); cmd_vel_callback    *)
(* runs on the executor thread of the gazebo_ros node (create_subscription,*)
(* line 132).  The source takes no lock, so the statements of the two      *)
(* handlers interleave: each handler is modelled statement by statement    *)
(* where it touches the shared setpoints, with a program counter per       *)
(* thread (pcT for the tick, pcC for the command callback).                *)
(*                                                                         *)
(* Reals are fixed point with three decimals: 8.0 is 8000, pi is 3142.     *)
(* Simulation time is in milliseconds.  Mass and moments of inertia are in *)
(* thousandths of their unit, so a force (acceleration * mass) is in       *)
(* millionths and is exact.  Gains are plain integers (2, 0, 0).           *)
(*                                                                         *)
(* pid.hpp (pid::Controller) is not among the sources; its constructor,    *)
(* set_target and calc are modelled from the specification, sections 3 and *)
(* 4.1.                                                                    *)
(***************************************************************************)
EXTENDS Integers, FiniteSets, Sequences, TLC

\* Fixed-point unit: three decimals.
Milli == 10 * 10 * 10

\* a * b for two fixed-point values.
Mul(a, b) == (a * b) \div Milli

Abs(v) == IF v < 0 THEN -v ELSE v

(***************************************************************************)
(* Program constants, lines 20-26.                                         *)
(***************************************************************************)
MAX_XY_V == 8000
MAX_Z_V == 4000
MAX_ANG_V == 3142

MAX_XY_A == 8000
MAX_Z_A == 4000
MAX_ANG_A == 3142

\* M_PI and 2 * M_PI in fixed point.
PI == 3142
TwoPi == 2 * PI

(***************************************************************************)
(* Bounds of the model.                                                    *)
(***************************************************************************)
\* The number of update events followed.
MaxTicks == 2
\* The number of commands delivered.
MaxCmds == 2
\* Arguments clamp is applied to: v in -ClampRange..ClampRange, max in 1..ClampMaxBound.
ClampRange == 12
ClampMaxBound == 4

(***************************************************************************)
(* Inputs.                                                                 *)
(***************************************************************************)
\* geometry_msgs::msg::Twist: linear.x, linear.y, linear.z, angular.z.
\* The two commands differ from one another in every component.
Cmds ==
  { [lx |-> 1000,  ly |-> 0,   lz |-> 0,    az |-> 0],
    [lx |-> -1000, ly |-> 500, lz |-> -500, az |-> 1000] }

\* The simulation times (ms) an update event may carry, in any order.
SimTimes == {0, 1}

\* The state before any command: all setpoints 0.
NoCmd == [lx |-> 0, ly |-> 0, lz |-> 0, az |-> 0]

Vec(a, b, c) == [x |-> a, y |-> b, z |-> c]

\* Orientations (pose.Rot(), a quaternion w, x, y, z; in hundredths, which
\* keeps the products of the Euler conversion within TLC's integers):
\* yaw 1.0 and level; roll 0.3, pitch -0.2, yaw 1.0.
Quat(qw, qx, qy, qz) == [w |-> qw, x |-> qx, y |-> qy, z |-> qz]

\* What the physics engine may report of the link at an update event: its
\* body-frame velocities (RelativeLinearVel, RelativeAngularVel) and its
\* orientation (WorldPose().Rot()).
LinkStates ==
  { [lin |-> Vec(0, 0, 0),           ang |-> Vec(0, 0, 0),
     rot |-> Quat(88, 0, 0, 48)],
    [lin |-> Vec(3000, -7000, 1000), ang |-> Vec(0, 0, TwoPi - 10),
     rot |-> Quat(86, 18, -2, 48)] }

\* Inertial::MOI(): the symmetric 3x3 inertia matrix, its moments on the
\* diagonal and its products of inertia off it.
Mat(ixx, iyy, izz, ixy, ixz, iyz) ==
  [ixx |-> ixx, iyy |-> iyy, izz |-> izz, ixy |-> ixy, ixz |-> ixz, iyz |-> iyz]

\* Links the model may hold, and each one's Inertial: mass and inertia
\* matrix.  base_link has principal axes along the body axes; heavy_link has
\* products of inertia.
Links == {"base_link", "heavy_link"}

Inertial(link) ==
  IF link = "base_link"
  THEN [mass |-> 80, moi |-> Mat(1, 1, 2, 0, 0, 0)]
  ELSE [mass |-> 1000, moi |-> Mat(10, 20, 30, 1, 2, 3)]

NULL == "nullptr"

(***************************************************************************)
(* inline double clamp(const double v, const double max), lines 28-31.     *)
(***************************************************************************)
clamp_no_lower(v, max) == IF v > max THEN max ELSE v

clamp_identity(v, max) == v

clamp(v, max) == IF v > max THEN max ELSE (IF v < -max THEN -max ELSE v)

(***************************************************************************)
(* pid::Controller, from the specification (sections 3, 4.1).              *)
(***************************************************************************)
\* Controller(angle, Kp, Ki, Kd): gains fixed, setpoint and history zero.
\* integral is in millionths (error in thousandths times dt in ms).
Controller(angle, Kp, Ki, Kd) ==
  [angle |-> angle, Kp |-> Kp, Ki |-> Ki, Kd |-> Kd,
   target |-> 0, integral |-> 0, prev_error |-> 0]

\* setTarget(value): stores the setpoint, nothing else.
set_target(c, value) == [c EXCEPT !.target = value]

\* Shortest-angle difference: e wrapped into (-pi, pi].
WrapPi(e) == PI - ((PI - e) % TwoPi)

\* The error of one update: setpoint - measured, wrapped when angular.
calc_error(c, state) ==
  LET e == c.target - state
  IN IF c.angle THEN WrapPi(e) ELSE e

\* update(measuredValue, dt): the controller after the step and the output
\* kp*error + ki*accumulator + kd*derivative (+ the third argument of the
\* call, which OnUpdate always passes as 0).
calc(c, state, dt, bias) ==
  LET error == calc_error(c, state)
      integral == c.integral + error * dt
      derivative == IF dt = 0 THEN 0
                    ELSE IF dt > 0 THEN ((error - c.prev_error) * Milli) \div dt
                    ELSE -(((error - c.prev_error) * Milli) \div (-dt))
  IN [ctrl |-> [c EXCEPT !.integral = integral, !.prev_error = error],
      out |-> c.Kp * error + (c.Ki * integral) \div Milli + c.Kd * derivative + bias]

(***************************************************************************)
(* State.                                                                  *)
(***************************************************************************)
VARIABLES
  phase,             \* "init", "running", "aborted" (assertion), "crashed"
  base_link_,        \* line 36: a link of Links, or NULL
  sim_time_,         \* line 62: sim time of last update (ms)
  x_controller_,     \* lines 65-68
  y_controller_,
  z_controller_,
  yaw_controller_,
  pose,              \* the link's world orientation, as last set by a tick
  pcT,               \* OnUpdate's position
  ticks,             \* number of ticks begun
  dt,                \* OnUpdate locals, kept until the next tick
  linear_velocity,
  angular_velocity,
  lin_raw,           \* the demands before the clamp (lines 167-170)
  ang_raw,
  lin_ubar,
  ang_ubar,
  inertial,          \* the mass and moments read at lines 189-190
  force,
  torque,
  pose_before,       \* WorldPose() as read at line 199
  used,              \* the setpoints the tick's four calc calls read
  pcC,               \* cmd_vel_callback's position
  msg,               \* the message the callback is handling
  last_cmd,          \* the most recent command received
  cmds,              \* number of commands delivered
  cmd_at_tick,       \* the most recent command received when the latest tick began
  cv, cm, cres       \* arguments and results of clamp applied on its own

vars ==
  << phase, base_link_, sim_time_, x_controller_, y_controller_,
     z_controller_, yaw_controller_, pose, pcT, ticks, dt, linear_velocity,
     angular_velocity, lin_raw, ang_raw, lin_ubar, ang_ubar, inertial, force,
     torque, pose_before, used, pcC, msg, last_cmd, cmd_at_tick, cmds,
     cv, cm, cres >>

ctrlVars == << x_controller_, y_controller_, z_controller_, yaw_controller_ >>

tickVars ==
  << sim_time_, pose, pcT, ticks, dt, linear_velocity, angular_velocity,
     lin_raw, ang_raw, lin_ubar, ang_ubar, inertial, force, torque,
     pose_before, used >>

cmdVars == << pcC, msg, last_cmd, cmds >>

clampVars == << cv, cm, cres >>

buildVars == << phase, base_link_ >>

(***************************************************************************)
(* Construction: lines 36-68.                                              *)
(***************************************************************************)
yaw_controller_angular == Controller(TRUE, 2, 0, 0)

x_controller_kp3 == Controller(FALSE, 3, 0, 0)

x_controller_init == Controller(FALSE, 2, 0, 0)
y_controller_init == Controller(FALSE, 2, 0, 0)
z_controller_init == Controller(FALSE, 2, 0, 0)
yaw_controller_init == Controller(FALSE, 2, 0, 0)

NoResult == [done |-> FALSE, once |-> 0, twice |-> 0, neg |-> 0]

NoInertial == [mass |-> 0, moi |-> Mat(0, 0, 0, 0, 0, 0)]

\* The identity orientation.
p0 == Quat(100, 0, 0, 0)

\* gazebo::common::Time's default constructor: zero.
sim_time_init == 0

Constructed ==
  /\ phase = "init"
  /\ base_link_ = NULL
  /\ sim_time_ = sim_time_init
  /\ x_controller_ = x_controller_init
  /\ y_controller_ = y_controller_init
  /\ z_controller_ = z_controller_init
  /\ yaw_controller_ = yaw_controller_init
  /\ pose = p0
  /\ pcT = "idle"
  /\ ticks = 0
  /\ dt = 0
  /\ linear_velocity = Vec(0, 0, 0)
  /\ angular_velocity = Vec(0, 0, 0)
  /\ lin_raw = Vec(0, 0, 0)
  /\ ang_raw = Vec(0, 0, 0)
  /\ lin_ubar = Vec(0, 0, 0)
  /\ ang_ubar = Vec(0, 0, 0)
  /\ inertial = NoInertial
  /\ force = Vec(0, 0, 0)
  /\ torque = Vec(0, 0, 0)
  /\ pose_before = p0
  /\ used = NoCmd
  /\ pcC = "idle"
  /\ msg = NoCmd
  /\ last_cmd = NoCmd
  /\ cmd_at_tick = NoCmd
  /\ cmds = 0

Init ==
  /\ Constructed
  /\ cv = 0 /\ cm = 1 /\ cres = NoResult

(***************************************************************************)
(* Load, lines 81-140.                                                     *)
(***************************************************************************)
\* GZ_ASSERT(expr, msg) is BOOST_ASSERT_MSG, an assert: when expr is false it
\* aborts, and in a build with NDEBUG it expands to nothing and Load goes on.
\* The outcomes the builds can produce: TRUE for going on, FALSE for abort.
GZ_ASSERT(expr) == IF expr THEN {TRUE} ELSE {TRUE, FALSE}

\* model->GetLink(link_name): the link, or nullptr when no link has the name.
Load ==
  /\ phase = "init"
  /\ \E link \in Links \cup {NULL} :
       /\ base_link_' = link
       /\ \E goes_on \in GZ_ASSERT(link # NULL) :
            phase' = IF goes_on THEN "running" ELSE "aborted"
  /\ UNCHANGED << ctrlVars, tickVars, cmdVars, cmd_at_tick, clampVars >>

(***************************************************************************)
(* cmd_vel_callback, lines 217-227: four statements.                       *)
(***************************************************************************)
cmd_target_x(m) == Mul(m.lx, MAX_XY_V)
cmd_target_y(m) == Mul(m.ly, MAX_XY_V)
cmd_target_z_xy(m) == Mul(m.lz, MAX_XY_V)
cmd_target_z(m) == Mul(m.lz, MAX_Z_V)
cmd_target_yaw(m) == Mul(m.az, MAX_ANG_V)

Targets ==
  [lx |-> x_controller_.target, ly |-> y_controller_.target,
   lz |-> z_controller_.target, az |-> yaw_controller_.target]

CallbackStep(next) ==
  /\ pcC' = next
  /\ UNCHANGED << buildVars, tickVars, cmd_at_tick, clampVars >>

\* The message is delivered and line 223 runs.
cmd_vel_callback_x ==
  /\ phase = "running"
  /\ pcC = "idle"
  /\ cmds < MaxCmds
  /\ cmds' = cmds + 1
  /\ \E m \in Cmds :
       /\ msg' = m
       /\ last_cmd' = m
       /\ x_controller_' = set_target(x_controller_, cmd_target_x(m))
  /\ CallbackStep("y")
  /\ UNCHANGED << y_controller_, z_controller_, yaw_controller_ >>

cmd_vel_callback_y ==
  /\ phase = "running"
  /\ pcC = "y"
  /\ y_controller_' = set_target(y_controller_, cmd_target_y(msg))
  /\ CallbackStep("z")
  /\ UNCHANGED << msg, last_cmd, cmds, x_controller_, z_controller_, yaw_controller_ >>

cmd_vel_callback_z ==
  /\ phase = "running"
  /\ pcC = "z"
  /\ z_controller_' = set_target(z_controller_, cmd_target_z(msg))
  /\ CallbackStep("yaw")
  /\ UNCHANGED << msg, last_cmd, cmds, x_controller_, y_controller_, yaw_controller_ >>

cmd_vel_callback_yaw ==
  /\ phase = "running"
  /\ pcC = "yaw"
  /\ yaw_controller_' = set_target(yaw_controller_, cmd_target_yaw(msg))
  /\ CallbackStep("idle")
  /\ UNCHANGED << msg, last_cmd, cmds, x_controller_, y_controller_, z_controller_ >>

(***************************************************************************)
(* OnUpdate, lines 143-207.                                                *)
(***************************************************************************)
\* Dereferencing base_link_.  A null pointer is undefined behaviour: the
\* process faults, or the reads return whatever the build makes of them.
LinkRead == IF base_link_ = NULL THEN Links ELSE {base_link_}

TickFrame == UNCHANGED << buildVars, cmdVars, cmd_at_tick, clampVars >>

\* info.simTime - sim_time_ (line 153).
elapsed(simTime) == simTime - sim_time_

\* Lines 143-158 and the construction of lin_ubar, ang_ubar (166).  DEBUG is
\* false (line 18), so the static call counter of lines 145-150 has no effect.
\* The event carries whatever simulation time the world has: the code does
\* not compare it with sim_time_, so it may be equal to it or earlier (the
\* world's time goes back on a reset, and the plugin keeps sim_time_).  The
\* link has the velocity and orientation the physics engine gives it.  The
\* locals of the previous call are gone.
OnUpdate_begin ==
  /\ phase = "running"
  /\ pcT = "idle"
  /\ ticks < MaxTicks
  /\ \E simTime \in SimTimes, v \in LinkStates :
       /\ dt' = elapsed(simTime)
       /\ sim_time_' = simTime
       /\ linear_velocity' = v.lin
       /\ angular_velocity' = v.ang
       /\ pose' = v.rot
  /\ ticks' = ticks + 1
  /\ lin_raw' = Vec(0, 0, 0)
  /\ ang_raw' = Vec(0, 0, 0)
  /\ lin_ubar' = Vec(0, 0, 0)
  /\ ang_ubar' = Vec(0, 0, 0)
  /\ cmd_at_tick' = last_cmd
  /\ pcT' = "calc_x"
  /\ inertial' = NoInertial
  /\ force' = Vec(0, 0, 0)
  /\ torque' = Vec(0, 0, 0)
  /\ pose_before' = p0
  /\ used' = NoCmd
  /\ UNCHANGED << buildVars, cmdVars, clampVars, ctrlVars >>

\* The null dereference of line 157 faulting.
OnUpdate_fault ==
  /\ phase = "running"
  /\ pcT = "idle"
  /\ base_link_ = NULL
  /\ phase' = "crashed"
  /\ UNCHANGED << base_link_, ctrlVars, tickVars, cmdVars,
                  cmd_at_tick, clampVars >>

TickStep(next) ==
  /\ pcT' = next
  /\ TickFrame
  /\ UNCHANGED << sim_time_, pose, ticks, dt, linear_velocity, angular_velocity,
                  inertial, force, torque, pose_before >>

\* Line 167.
OnUpdate_calc_x ==
  /\ phase = "running"
  /\ pcT = "calc_x"
  /\ LET r == calc(x_controller_, linear_velocity.x, dt, 0)
     IN /\ x_controller_' = r.ctrl
        /\ lin_raw' = [lin_raw EXCEPT !.x = r.out]
        /\ lin_ubar' = [lin_ubar EXCEPT !.x = r.out]
  /\ used' = [used EXCEPT !.lx = x_controller_.target]
  /\ TickStep("calc_y")
  /\ UNCHANGED << y_controller_, z_controller_, yaw_controller_, ang_raw, ang_ubar >>

\* Line 168.
OnUpdate_calc_y ==
  /\ phase = "running"
  /\ pcT = "calc_y"
  /\ LET r == calc(y_controller_, linear_velocity.y, dt, 0)
     IN /\ y_controller_' = r.ctrl
        /\ lin_raw' = [lin_raw EXCEPT !.y = r.out]
        /\ lin_ubar' = [lin_ubar EXCEPT !.y = r.out]
  /\ used' = [used EXCEPT !.ly = y_controller_.target]
  /\ TickStep("calc_z")
  /\ UNCHANGED << x_controller_, z_controller_, yaw_controller_, ang_raw, ang_ubar >>

\* Line 169.
OnUpdate_calc_z ==
  /\ phase = "running"
  /\ pcT = "calc_z"
  /\ LET r == calc(z_controller_, linear_velocity.z, dt, 0)
     IN /\ z_controller_' = r.ctrl
        /\ lin_raw' = [lin_raw EXCEPT !.z = r.out]
        /\ lin_ubar' = [lin_ubar EXCEPT !.z = r.out]
  /\ used' = [used EXCEPT !.lz = z_controller_.target]
  /\ TickStep("calc_yaw")
  /\ UNCHANGED << x_controller_, y_controller_, yaw_controller_, ang_raw, ang_ubar >>

\* Line 170.
OnUpdate_calc_yaw ==
  /\ phase = "running"
  /\ pcT = "calc_yaw"
  /\ LET r == calc(yaw_controller_, angular_velocity.z, dt, 0)
     IN /\ yaw_controller_' = r.ctrl
        /\ ang_raw' = [ang_raw EXCEPT !.z = r.out]
        /\ ang_ubar' = [ang_ubar EXCEPT !.z = r.out]
  /\ used' = [used EXCEPT !.az = yaw_controller_.target]
  /\ TickStep("apply")
  /\ UNCHANGED << x_controller_, y_controller_, z_controller_, lin_raw, lin_ubar >>

\* Lines 178-181.
clamp_lin(u) ==
  [x |-> clamp(u.x, MAX_XY_A), y |-> clamp(u.y, MAX_XY_A), z |-> clamp(u.z, MAX_Z_A)]

clamp_ang(u) == [u EXCEPT !.z = clamp(u.z, MAX_ANG_A)]

\* Line 189: Vector3d * double.
calc_force(u, in) == Vec(u.x * in.mass, u.y * in.mass, u.z * in.mass)

\* Line 190: Vector3d * Matrix3d, the row vector times the inertia matrix.
calc_torque(u, in) ==
  LET m == in.moi
  IN Vec(u.x * m.ixx + u.y * m.ixy + u.z * m.ixz,
         u.x * m.ixy + u.y * m.iyy + u.z * m.iyz,
         u.x * m.ixz + u.y * m.iyz + u.z * m.izz)

\* Lines 200-201: the x and y components of the quaternion are set to 0.
zero_roll_pitch(q) == [q EXCEPT !.x = 0, !.y = 0]

\* Lines 178-206: clamp, force and torque, the pose overwritten, all applied.
\* The controllers are not touched.
OnUpdate_apply ==
  /\ phase = "running"
  /\ pcT = "apply"
  /\ lin_ubar' = clamp_lin(lin_ubar)
  /\ ang_ubar' = clamp_ang(ang_ubar)
  /\ \E link \in LinkRead :
       LET in == Inertial(link) IN
       /\ inertial' = in
       /\ force' = calc_force(clamp_lin(lin_ubar), in)
       /\ torque' = calc_torque(clamp_ang(ang_ubar), in)
  /\ pose_before' = pose
  /\ pose' = zero_roll_pitch(pose)
  /\ pcT' = "idle"
  /\ TickFrame
  /\ UNCHANGED << ctrlVars, sim_time_, ticks, dt, linear_velocity,
                  angular_velocity, lin_raw, ang_raw, used >>

Next ==
  \/ Load
  \/ cmd_vel_callback_x
  \/ cmd_vel_callback_y
  \/ cmd_vel_callback_z
  \/ cmd_vel_callback_yaw
  \/ OnUpdate_begin
  \/ OnUpdate_fault
  \/ OnUpdate_calc_x
  \/ OnUpdate_calc_y
  \/ OnUpdate_calc_z
  \/ OnUpdate_calc_yaw
  \/ OnUpdate_apply

Spec == Init /\ [][Next]_vars

(***************************************************************************)
(* clamp on its own: inputs drawn from bounded sets, the function applied. *)
(***************************************************************************)
ClampInit ==
  /\ Constructed
  /\ cv \in -ClampRange..ClampRange
  /\ cm \in 1..ClampMaxBound
  /\ cres = NoResult

ApplyClamp ==
  /\ ~cres.done
  /\ cres' = [done |-> TRUE,
              once |-> clamp(cv, cm),
              twice |-> clamp(clamp(cv, cm), cm),
              neg |-> clamp(-cv, cm)]
  /\ UNCHANGED << buildVars, ctrlVars, tickVars, cmdVars, cmd_at_tick, cv, cm >>

ClampNext == ApplyClamp

ClampSpec == ClampInit /\ [][ClampNext]_vars

(***************************************************************************)
(* Properties.                                                             *)
(***************************************************************************)
\* A tick has run to its end and no later one has begun.
TickDone == ticks > 0 /\ pcT = "idle"

\* Hard symmetric saturation of v at b, as the specification words it.
Sat(v, b) == IF v > b THEN b ELSE IF v < -b THEN -b ELSE v

AllCmds == Cmds \cup {NoCmd}

\* The four setpoints a command stands for: each component times its axis's
\* maximum velocity (8.0, 8.0, 4.0, pi).
ScaleCmd(m) ==
  [lx |-> (m.lx * 8000) \div Milli, ly |-> (m.ly * 8000) \div Milli,
   lz |-> (m.lz * 4000) \div Milli, az |-> (m.az * 3142) \div Milli]

\* Euler angles of an orientation (Quaternion::Euler of the normalised
\* quaternion), compared without trigonometry: roll is atan2(RollSin, RollCos),
\* pitch is asin of PitchSin over the squared norm, yaw is atan2(YawSin, YawCos).
RollSin(q) == 2 * (q.y * q.z + q.w * q.x)
RollCos(q) == q.w * q.w - q.x * q.x - q.y * q.y + q.z * q.z
PitchSin(q) == -2 * (q.x * q.z - q.w * q.y)
YawSin(q) == 2 * (q.x * q.y + q.w * q.z)
YawCos(q) == q.w * q.w + q.x * q.x - q.y * q.y - q.z * q.z

RollZero(q) == RollSin(q) = 0 /\ RollCos(q) > 0
PitchZero(q) == PitchSin(q) = 0
\* Two orientations have the same yaw: (YawSin, YawCos) point the same way.
SameYaw(p, q) ==
  /\ YawSin(p) * YawCos(q) - YawCos(p) * YawSin(q) = 0
  /\ YawSin(p) * YawSin(q) + YawCos(p) * YawCos(q) > 0

AxisClamped(raw, out, bound) ==
  /\ -bound <= out /\ out <= bound
  /\ raw > bound => out = bound
  /\ raw < -bound => out = -bound
  /\ (-bound <= raw /\ raw <= bound) => out = raw

\* C1: after every tick the acceleration demand handed to the force/torque
\* conversion is within the per-axis bound (x, y: 8.0; z: 4.0; yaw: pi); a raw
\* demand beyond the bound is exactly the bound with its sign, a raw demand
\* within the bound is unchanged.
C1_AccelerationClamped ==
  TickDone =>
    /\ AxisClamped(lin_raw.x, lin_ubar.x, 8000)
    /\ AxisClamped(lin_raw.y, lin_ubar.y, 8000)
    /\ AxisClamped(lin_raw.z, lin_ubar.z, 4000)
    /\ AxisClamped(ang_raw.z, ang_ubar.z, 3142)

\* A finished tick with x saturated high, yaw saturated low, z passed through.
C1_Witness ==
  /\ TickDone
  /\ lin_raw.x > 8000 /\ lin_ubar.x = 8000
  /\ ang_raw.z < -3142 /\ ang_ubar.z = -3142
  /\ lin_raw.z = -2000 /\ lin_ubar.z = -2000

\* The setpoints a finished tick read are those of the most recent command
\* received before the tick began.
C2_UsesLatest ==
  TickDone => used = ScaleCmd(cmd_at_tick)

\* C2: every tick uses, on each channel, the setpoint of the most recent
\* command received before it (of two commands before a tick, the second
\* only), and no statement of a tick changes a setpoint, so a command stands
\* for every later tick until another command arrives.
C2_LastWriteWins ==
  /\ []C2_UsesLatest
  /\ [][pcT' # pcT => Targets' = Targets]_vars

\* C3: under every interleaving of a command update with a tick, the four
\* setpoints the tick reads all come from one and the same command.
C3_OneCommandPerTick ==
  TickDone => used \in {ScaleCmd(c) : c \in AllCmds}

\* C4: the dt a tick passes to the controllers is non-negative, and is 0 on
\* the first tick after initialization whatever time that tick reports.
C4_DtFirstTickZero ==
  ticks >= 1 => (dt >= 0 /\ (ticks = 1 => dt = 0))

NonTarget(c) == [c EXCEPT !.target = 0]

C5_Stored ==
  pcC = "idle" =>
    /\ x_controller_.target = Mul(last_cmd.lx, 8000)
    /\ y_controller_.target = Mul(last_cmd.ly, 8000)
    /\ z_controller_.target = Mul(last_cmd.lz, 4000)
    /\ yaw_controller_.target = Mul(last_cmd.az, 3142)

\* C5: cmd_vel_callback stores each command component times its axis's
\* maximum velocity (8.0, 8.0, 4.0, pi) as the channel's setpoint, so
\* (1.0, 0, 0, 0) gives setpoints (8.0, 0, 0, 0); its statements change
\* nothing else.
C5_CommandScaled ==
  /\ []C5_Stored
  /\ [][pcC' # pcC =>
         /\ NonTarget(x_controller_)' = NonTarget(x_controller_)
         /\ NonTarget(y_controller_)' = NonTarget(y_controller_)
         /\ NonTarget(z_controller_)' = NonTarget(z_controller_)
         /\ NonTarget(yaw_controller_)' = NonTarget(yaw_controller_)
         /\ UNCHANGED << buildVars, tickVars >>]_vars

\* The command (1.0, 0, 0, 0) stored after a tick has run.
C5_Witness ==
  /\ pcC = "idle"
  /\ ticks > 0
  /\ last_cmd = [lx |-> 1000, ly |-> 0, lz |-> 0, az |-> 0]
  /\ Targets = [lx |-> 8000, ly |-> 0, lz |-> 0, az |-> 0]
  /\ x_controller_.prev_error # 0

\* C6: with gains (2, 0, 0) the force on each linear axis is
\* clamp(2 * (setpoint - measured), bound) * mass and the yaw torque is
\* clamp(2 * (setpoint - measured), pi) * Izz, for every mass and dt.
C6_ForceTorque ==
  TickDone =>
    /\ inertial.mass > 0
    /\ force.x = Sat(2 * (used.lx - linear_velocity.x), 8000) * inertial.mass
    /\ force.y = Sat(2 * (used.ly - linear_velocity.y), 8000) * inertial.mass
    /\ force.z = Sat(2 * (used.lz - linear_velocity.z), 4000) * inertial.mass
    /\ torque.z = Sat(2 * (used.az - angular_velocity.z), 3142) * inertial.moi.izz

\* Measured x 0, setpoint 8.0, dt > 0: demand 16.0, clamped 8.0, force 8.0 * mass.
C6_Witness ==
  /\ TickDone
  /\ dt > 0
  /\ used.lx = 8000 /\ linear_velocity.x = 0
  /\ lin_raw.x = 16000 /\ lin_ubar.x = 8000
  /\ inertial.mass = 80 /\ force.x = 640000

\* C7: a tick leaves roll and pitch exactly zero and the yaw as it was.
C7_RollPitchZeroYawKept ==
  TickDone =>
    /\ RollZero(pose)
    /\ PitchZero(pose)
    /\ SameYaw(pose_before, pose)

\* C8 as stated: with yaw setpoint 0 and measured 2*pi - 0.01 the error the
\* yaw controller uses (half its demand, the gain being 2) is at most 0.01.
C8_YawErrorWrapped ==
  (TickDone /\ used.az = 0 /\ angular_velocity.z = TwoPi - 10) =>
    Abs(ang_raw.z) <= 2 * 10

\* C8, amended: the yaw channel is a linear channel (its angle flag is
\* false): its error is setpoint - measured, not wrapped, so its demand is
\* 2 * (setpoint - measured) whatever the size of the difference.
C8_YawErrorNotWrapped ==
  TickDone => ang_raw.z = 2 * (used.az - angular_velocity.z)

\* Setpoint 0, measured 2*pi - 0.01: the error used is -(2*pi - 0.01).
C8_Witness ==
  /\ TickDone
  /\ used.az = 0
  /\ angular_velocity.z = TwoPi - 10
  /\ ang_raw.z = -2 * (TwoPi - 10)
  /\ yaw_controller_.prev_error = -(TwoPi - 10)

\* C9: when Load finds no link, initialization aborts and no tick ever runs
\* with a null body reference.
C9_NoTickOnNullLink ==
  /\ (phase # "init" /\ base_link_ = NULL) => phase = "aborted"
  /\ (pcT # "idle" \/ ticks > 0) => base_link_ # NULL

\* C10: clamp is idempotent and symmetric: clamp(v, m) = clamp(clamp(v, m), m)
\* and clamp(v, m) = -clamp(-v, m), for all v and m > 0.
C10_ClampIdempotentSymmetric ==
  cres.done => (cres.once = cres.twice /\ cres.once = -cres.neg)

\* clamp applied to a value below -max.
C10_Witness ==
  /\ cres.done
  /\ cv < -cm
  /\ cres.once = -cm
  /\ cres.neg = cm

=============================================================================
